---- MODULE Spec2Model ----
(***************************************************************************)
(* Identity provisioning (POST /api/register) and the bearer-token gate    *)
(* (requireAuth) of src/app.js.                                            *)
(*                                                                         *)
(* The Supabase client is an external collaborator: each call the handlers *)
(* await either resolves without error, resolves with an error value, or   *)
(* rejects (throws).  A call takes effect on its store atomically, at the  *)
(* step where the awaiting handler resumes; every await is a point where   *)
(* other requests interleave.                                              *)
(***************************************************************************)
EXTENDS Integers, Sequences, FiniteSets, TLC

\* ------------------------------------------------------------------ bounds
MaxRequests == 2      \* registration requests in one behaviour
MaxHeaderLen == 3     \* symbols in an Authorization header value
MaxGuardRequests == 3 \* requests served one after another on the routes

\* ------------------------------------------------------- registration body
Emails == {"a@x.com", "b@x.com"}

\* "" stands for a field that is absent from req.body or empty.
CompleteBody(e) ==
  [email |-> e, password |-> "p", Nombre |-> "Ana", apellido_1 |-> "Gomez",
   fecha_nacime |-> "1990-01-01"]

\* The fields of req.body that the handler reads into the two stores.
BodyFields == {"email", "password", "Nombre", "apellido_1", "fecha_nacime"}

\* The request bodies: complete ones, and ones lacking one field.
Bodies ==
  {CompleteBody(e) : e \in Emails} \cup
  {[CompleteBody(e) EXCEPT ![f] = ""] : e \in Emails, f \in BodyFields}

NoBody ==
  [email |-> "", password |-> "", Nombre |-> "", apellido_1 |-> "",
   fecha_nacime |-> ""]

\* --------------------------------------------------------------- responses
NoRes == [status |-> 0, text |-> "", userId |-> 0]

ResAuthError == [status |-> 400, text |-> "Error Auth: ", userId |-> 0]

ResDbError == [status |-> 400, text |-> "Error Base de Datos: ", userId |-> 0]

ResCreated(id) ==
  [status |-> 201, text |-> "Usuario registrado con éxito", userId |-> id]

ResInternal ==
  [status |-> 500, text |-> "Error interno en el registro", userId |-> 0]

\* ------------------------------------------------------------------- state
VARIABLES
  authUsers,  \* Credential Store: the identities, [id, email]
  usuarios,   \* Profile Store, table 'usuarios': rows [ID_Usuario, Correo]
  nextId,     \* the next id the Credential Store assigns
  reg,        \* the registration requests
  tokens,     \* Credential Store: bearer token -> identity id (0: not
              \* issued, Expired: expired or revoked)
  cur,        \* the request being served on a route
  served,     \* number of route requests that have been answered
  obs         \* what an observer of the gate has recorded: the identity each
              \* token was last accepted for (0: never), and whether the
              \* token of the current request was already expired on arrival

regVars == <<authUsers, usuarios, nextId, reg>>
guardVars == <<tokens, cur, served, obs>>
vars == <<authUsers, usuarios, nextId, reg, tokens, cur, served, obs>>

Requests == 1..MaxRequests

IdleReg ==
  [pc |-> "idle", body |-> NoBody, authData |-> 0, calls |-> <<>>,
   res |-> NoRes]

\* One external call as the Supabase client sees it.
Call(op, arg) == [op |-> op, arg |-> arg, result |-> "pending"]

\* The last call of the request resolves with the given result.
Resolve(calls, result) ==
  [calls EXCEPT ![Len(calls)] = [@ EXCEPT !.result = result]]

IdentityIds == {u.id : u \in authUsers}
ProfileIds == {p.ID_Usuario : p \in usuarios}
EmailsInUse == {u.email : u \in authUsers}

\* ------------------------------------------------- POST /api/register
\* The handler starts: it destructures the body and issues createUser.
PostRegister(r, b) ==
  /\ reg[r].pc = "idle"
  /\ \A q \in Requests : q < r => reg[q].pc # "idle"
  /\ reg' = [reg EXCEPT ![r] =
       [@ EXCEPT !.pc = "createUser", !.body = b,
                 !.calls = <<Call("createUser", 0)>>]]
  /\ UNCHANGED <<authUsers, usuarios, nextId>>

\* After a successful createUser the handler issues the profile insert.
AfterCreateUserOk(q, id) ==
  [q EXCEPT !.pc = "insert", !.authData = id,
            !.calls = Append(Resolve(q.calls, "ok"), Call("insert", id))]

\* Variant: the handler does not return on authError.
AfterCreateUserErrorFallsThrough(q) ==
  [q EXCEPT !.pc = "insert",
            !.calls = Append(Resolve(q.calls, "error"), Call("insert", 0))]

\* `if (authError) return res.status(400)...`
AfterCreateUserError(q) ==
  [q EXCEPT !.pc = "done", !.calls = Resolve(q.calls, "error"),
            !.res = ResAuthError]

\* The catch block: `res.status(500)`.
Catch(q) ==
  [q EXCEPT !.pc = "done", !.calls = Resolve(q.calls, "throw"),
            !.res = ResInternal]

\* createUser resolves without error: the Credential Store has created an
\* identity with a fresh id.  Emails are unique in the Credential Store.
CreateUserOk(r) ==
  /\ reg[r].pc = "createUser"
  /\ reg[r].body.email # ""
  /\ reg[r].body.email \notin EmailsInUse
  /\ authUsers' = authUsers \cup {[id |-> nextId, email |-> reg[r].body.email]}
  /\ nextId' = nextId + 1
  /\ reg' = [reg EXCEPT ![r] = AfterCreateUserOk(@, nextId)]
  /\ UNCHANGED usuarios

\* createUser resolves with authError (duplicate email, policy, provider).
CreateUserError(r) ==
  /\ reg[r].pc = "createUser"
  /\ reg' = [reg EXCEPT ![r] = AfterCreateUserError(@)]
  /\ UNCHANGED <<authUsers, usuarios, nextId>>

\* createUser rejects: the catch block answers.
CreateUserThrow(r) ==
  /\ reg[r].pc = "createUser"
  /\ reg' = [reg EXCEPT ![r] = Catch(@)]
  /\ UNCHANGED <<authUsers, usuarios, nextId>>

\* Variant: the compensation runs although the insert succeeded.
AfterInsertOkThenDelete(q) ==
  [q EXCEPT !.pc = "deleteUser",
            !.calls = Append(Resolve(q.calls, "ok"),
                             Call("deleteUser", q.authData))]

\* No dbError: `res.status(201).json({message, userId: authData.user.id})`.
AfterInsertOk(q) ==
  [q EXCEPT !.pc = "done", !.calls = Resolve(q.calls, "ok"),
            !.res = ResCreated(q.authData)]

\* dbError: the handler issues deleteUser(authData.user.id) and awaits it.
AfterInsertError(q) ==
  [q EXCEPT !.pc = "deleteUser",
            !.calls = Append(Resolve(q.calls, "error"),
                             Call("deleteUser", q.authData))]

\* Variant: the row is not keyed by the identity's id.
ProfileRowUnkeyed(q) == [ID_Usuario |-> 0, Correo |-> q.body.email]

\* The row the handler inserts into 'usuarios'.
ProfileRow(q) == [ID_Usuario |-> q.authData, Correo |-> q.body.email]

InsertOk(r) ==
  /\ reg[r].pc = "insert"
  /\ reg[r].authData \notin ProfileIds
  /\ usuarios' = usuarios \cup {ProfileRow(reg[r])}
  /\ reg' = [reg EXCEPT ![r] = AfterInsertOk(@)]
  /\ UNCHANGED <<authUsers, nextId>>

InsertError(r) ==
  /\ reg[r].pc = "insert"
  /\ reg' = [reg EXCEPT ![r] = AfterInsertError(@)]
  /\ UNCHANGED <<authUsers, usuarios, nextId>>

InsertThrow(r) ==
  /\ reg[r].pc = "insert"
  /\ reg' = [reg EXCEPT ![r] = Catch(@)]
  /\ UNCHANGED <<authUsers, usuarios, nextId>>

\* Variant: the answer after compensation blames the Credential Store.
AfterDeleteUserAuthPrefix(q, result) ==
  [q EXCEPT !.pc = "done", !.calls = Resolve(q.calls, result),
            !.res = ResAuthError]

\* After deleteUser resolves its result is not inspected: the handler logs
\* dbError and answers 400 with the database message.
AfterDeleteUser(q, result) ==
  [q EXCEPT !.pc = "done", !.calls = Resolve(q.calls, result),
            !.res = ResDbError]

DeleteUserOk(r) ==
  /\ reg[r].pc = "deleteUser"
  /\ authUsers' = {u \in authUsers : u.id # reg[r].authData}
  /\ reg' = [reg EXCEPT ![r] = AfterDeleteUser(@, "ok")]
  /\ UNCHANGED <<usuarios, nextId>>

\* deleteUser resolves with an error value: the identity stays.
DeleteUserError(r) ==
  /\ reg[r].pc = "deleteUser"
  /\ reg' = [reg EXCEPT ![r] = AfterDeleteUser(@, "error")]
  /\ UNCHANGED <<authUsers, usuarios, nextId>>

\* deleteUser rejects: the identity stays and the catch block answers.
DeleteUserThrow(r) ==
  /\ reg[r].pc = "deleteUser"
  /\ reg' = [reg EXCEPT ![r] = Catch(@)]
  /\ UNCHANGED <<authUsers, usuarios, nextId>>

RegInit ==
  /\ authUsers = {}
  /\ usuarios = {}
  /\ nextId = 1
  /\ reg = [r \in Requests |-> IdleReg]

\* ------------------------------------------------------------ the routes
ProtectedRoutes ==
  {"GET /api/perfil", "POST /api/servicios", "PUT /api/servicios/:id",
   "DELETE /api/servicios/:id"}

PublicRoutes ==
  {"POST /api/register", "POST /api/login", "GET /api/usuarios",
   "GET /api/usuarios/:id", "GET /api/servicios"}

Routes == ProtectedRoutes \cup PublicRoutes

\* The statuses each resource handler answers with.
HandlerStatuses(route) ==
  CASE route = "POST /api/register" -> {201, 400, 500}
    [] route = "POST /api/login" -> {200, 400, 500}
    [] route = "GET /api/perfil" -> {200, 404, 500}
    [] route = "GET /api/usuarios" -> {200, 500}
    [] route = "GET /api/usuarios/:id" -> {200, 404, 500}
    [] route = "POST /api/servicios" -> {201, 400, 500}
    [] route = "GET /api/servicios" -> {200, 500}
    [] route = "PUT /api/servicios/:id" -> {200, 400, 404, 500}
    [] route = "DELETE /api/servicios/:id" -> {204, 500}

\* ------------------------------------------------ the Authorization header
\* A header value is a sequence of symbols; " " is the space character and
\* the other symbols are words without a space.
Tokens == {"abc"}
Symbols == {"Bearer", "Basic", " "} \cup Tokens

HeaderValues == UNION {[1..n -> Symbols] : n \in 0..MaxHeaderLen}

\* req.headers.authorization: undefined, or a string.
Headers ==
  {[present |-> FALSE, value |-> <<>>]} \cup
  {[present |-> TRUE, value |-> v] : v \in HeaderValues}

RECURSIVE SplitFrom(_, _, _, _)
SplitFrom(s, i, seg, acc) ==
  IF i > Len(s) THEN Append(acc, seg)
  ELSE IF s[i] = " " THEN SplitFrom(s, i + 1, <<>>, Append(acc, seg))
  ELSE SplitFrom(s, i + 1, Append(seg, s[i]), acc)

\* String.prototype.split(' ')
Split(s) == SplitFrom(s, 1, <<>>, <<>>)

Undefined == [defined |-> FALSE, value |-> <<>>]

\* `authHeader?.split(' ')[1]`
TokenOf(h) ==
  IF ~h.present THEN Undefined
  ELSE IF Len(Split(h.value)) < 2 THEN Undefined
  ELSE [defined |-> TRUE, value |-> Split(h.value)[2]]

\* `!token`: undefined or the empty string
Falsy(t) == ~t.defined \/ t.value = <<>>

\* The state of a token that has expired or been revoked at the provider.
Expired == -1

\* The token is one the Credential Store has issued and since expired.
IsExpired(t) ==
  Len(t.value) = 1 /\ t.value[1] \in Tokens /\ tokens[t.value[1]] = Expired

\* The identity the Credential Store resolves a presented token to (0: none).
UserOf(t) ==
  IF Len(t.value) = 1 /\ t.value[1] \in Tokens /\ tokens[t.value[1]] # Expired
  THEN tokens[t.value[1]]
  ELSE 0

\* ------------------------------------------------------------ route requests
NoReq ==
  [pc |-> "none", route |-> "", header |-> [present |-> FALSE, value |-> <<>>],
   token |-> Undefined, user |-> 0, verifyCalls |-> 0, verify |-> "none",
   handlerRan |-> FALSE,
   storeCalls |-> 0, status |-> 0, text |-> ""]

\* Variant: a token accepted before is accepted again without the provider.
RequireAuthStartCached(q) ==
  LET t == TokenOf(q.header) IN
  IF Falsy(t)
  THEN [q EXCEPT !.pc = "done", !.status = 401, !.text = "Falta el token Bearer"]
  ELSE IF Len(t.value) = 1 /\ t.value[1] \in Tokens /\ obs.accepted[t.value[1]] # 0
  THEN [q EXCEPT !.pc = "handler", !.token = t, !.verify = "ok",
                 !.user = obs.accepted[t.value[1]], !.handlerRan = TRUE,
                 !.storeCalls = q.storeCalls + 1]
  ELSE [q EXCEPT !.pc = "getUser", !.token = t,
                 !.verifyCalls = q.verifyCalls + 1, !.verify = "pending"]

\* requireAuth up to its first await.
RequireAuthStart(q) ==
  IF Falsy(TokenOf(q.header))
  THEN [q EXCEPT !.pc = "done", !.status = 401, !.text = "Falta el token Bearer"]
  ELSE [q EXCEPT !.pc = "getUser", !.token = TokenOf(q.header),
                 !.verifyCalls = q.verifyCalls + 1, !.verify = "pending"]

\* The resource handler starts and issues its store call.
HandlerStart(q) ==
  [q EXCEPT !.pc = "handler", !.handlerRan = TRUE,
            !.storeCalls = q.storeCalls + 1]

\* Variant: the routes are wired without requireAuth.
DispatchUnguarded(q) == HandlerStart(q)

\* Express dispatches the request: requireAuth first where the route names it.
Dispatch(q) ==
  IF q.route \in ProtectedRoutes THEN RequireAuthStart(q) ELSE HandlerStart(q)

Arrive(route, h) ==
  /\ cur.pc = "none"
  /\ served < MaxGuardRequests
  /\ cur' = Dispatch([NoReq EXCEPT !.pc = "arrived", !.route = route,
                                   !.header = h])
  /\ served' = IF cur'.pc = "done" THEN served + 1 ELSE served
  /\ obs' = [obs EXCEPT !.expiredOnArrival = IsExpired(TokenOf(h))]
  /\ UNCHANGED tokens

\* `req.user = data.user; next()`
RequireAuthNext(q, user) ==
  HandlerStart([q EXCEPT !.user = user, !.verify = "ok"])

\* `if (error || !data?.user) return res.status(401)...`
RequireAuthInvalid(q, result) ==
  [q EXCEPT !.pc = "done", !.verify = result, !.status = 401,
            !.text = "Token inválido o expirado"]

\* Variant: the catch block answers as a server error.
RequireAuthCatch500(q) ==
  [q EXCEPT !.pc = "done", !.verify = "throw", !.status = 500,
            !.text = "Error verificando token"]

\* The catch block of requireAuth.
RequireAuthCatch(q) ==
  [q EXCEPT !.pc = "done", !.verify = "throw", !.status = 401,
            !.text = "Error verificando token"]

\* getUser resolves with the identity the token belongs to.
GetUserOk ==
  /\ cur.pc = "getUser"
  /\ UserOf(cur.token) # 0
  /\ cur' = RequireAuthNext(cur, UserOf(cur.token))
  /\ obs' = [obs EXCEPT !.accepted[cur.token.value[1]] = UserOf(cur.token)]
  /\ UNCHANGED <<tokens, served>>

\* getUser resolves with an error.
GetUserError ==
  /\ cur.pc = "getUser"
  /\ cur' = RequireAuthInvalid(cur, "error")
  /\ served' = served + 1
  /\ UNCHANGED <<tokens, obs>>

\* getUser resolves without an error and without a user.
GetUserNoUser ==
  /\ cur.pc = "getUser"
  /\ cur' = RequireAuthInvalid(cur, "nouser")
  /\ served' = served + 1
  /\ UNCHANGED <<tokens, obs>>

\* getUser rejects.
GetUserThrow ==
  /\ cur.pc = "getUser"
  /\ cur' = RequireAuthCatch(cur)
  /\ served' = served + 1
  /\ UNCHANGED <<tokens, obs>>

\* The resource handler answers.  GET /api/perfil answers 200 only with the
\* profile row of req.user.id.
HandlerRespond(status) ==
  /\ cur.pc = "handler"
  /\ cur.route # "POST /api/login" \/ status # 200
  /\ status \in HandlerStatuses(cur.route)
  /\ (cur.route = "GET /api/perfil" /\ status = 200) => cur.user \in ProfileIds
  /\ cur' = [cur EXCEPT !.pc = "done", !.status = status]
  /\ served' = served + 1
  /\ UNCHANGED <<tokens, obs>>

\* POST /api/login succeeds: the Credential Store issues a token for an
\* identity.
LoginOk(t, u) ==
  /\ cur.pc = "handler"
  /\ cur.route = "POST /api/login"
  /\ u \in IdentityIds
  /\ tokens[t] = 0
  /\ tokens' = [tokens EXCEPT ![t] = u]
  /\ cur' = [cur EXCEPT !.pc = "done", !.status = 200]
  /\ served' = served + 1
  /\ UNCHANGED obs

\* The response has been sent: the request object is gone.
Finish ==
  /\ cur.pc = "done"
  /\ cur' = NoReq
  /\ obs' = [obs EXCEPT !.expiredOnArrival = FALSE]
  /\ UNCHANGED <<tokens, served>>

\* A token expires or is revoked at the Credential Store.
ExpireToken(t) ==
  /\ tokens[t] \notin {0, Expired}
  /\ tokens' = [tokens EXCEPT ![t] = Expired]
  /\ UNCHANGED <<cur, served, obs>>

GuardIdle ==
  /\ tokens = [t \in Tokens |-> 0]
  /\ cur = NoReq
  /\ served = 0
  /\ obs = [accepted |-> [t \in Tokens |-> 0], expiredOnArrival |-> FALSE]

Init == RegInit /\ GuardIdle

Next ==
  \/ \E r \in Requests, b \in Bodies : PostRegister(r, b) /\ UNCHANGED guardVars
  \/ \E r \in Requests : CreateUserOk(r) /\ UNCHANGED guardVars
  \/ \E r \in Requests : CreateUserError(r) /\ UNCHANGED guardVars
  \/ \E r \in Requests : CreateUserThrow(r) /\ UNCHANGED guardVars
  \/ \E r \in Requests : InsertOk(r) /\ UNCHANGED guardVars
  \/ \E r \in Requests : InsertError(r) /\ UNCHANGED guardVars
  \/ \E r \in Requests : InsertThrow(r) /\ UNCHANGED guardVars
  \/ \E r \in Requests : DeleteUserOk(r) /\ UNCHANGED guardVars
  \/ \E r \in Requests : DeleteUserError(r) /\ UNCHANGED guardVars
  \/ \E r \in Requests : DeleteUserThrow(r) /\ UNCHANGED guardVars

Spec == Init /\ [][Next]_vars

\* The routes are served against stores that earlier registrations have
\* filled: identity 1 has its profile, identity 2 has none.
GuardInit ==
  /\ authUsers = {[id |-> 1, email |-> "a@x.com"], [id |-> 2, email |-> "b@x.com"]}
  /\ usuarios = {[ID_Usuario |-> 1, Correo |-> "a@x.com"]}
  /\ nextId = 3
  /\ reg = [r \in Requests |-> IdleReg]
  /\ GuardIdle

GuardNext ==
  \/ \E route \in Routes, h \in Headers : Arrive(route, h) /\ UNCHANGED regVars
  \/ GetUserOk /\ UNCHANGED regVars
  \/ GetUserError /\ UNCHANGED regVars
  \/ GetUserNoUser /\ UNCHANGED regVars
  \/ GetUserThrow /\ UNCHANGED regVars
  \/ \E status \in {200, 201, 204, 400, 404, 500} :
       HandlerRespond(status) /\ UNCHANGED regVars
  \/ \E t \in Tokens, u \in 1..2 : LoginOk(t, u) /\ UNCHANGED regVars
  \/ Finish /\ UNCHANGED regVars
  \/ \E t \in Tokens : ExpireToken(t) /\ UNCHANGED regVars

GuardSpec == GuardInit /\ [][GuardNext]_vars

\* =================================================================
\* Properties of POST /api/register (checked under Spec)
\* =================================================================

\* The calls of request r to the given operation, as indices of its call log.
CallsTo(r, op) == {i \in DOMAIN reg[r].calls : reg[r].calls[i].op = op}

\* The results of request r's calls to the given operation.
ResultsOf(r, op) == {reg[r].calls[i].result : i \in CallsTo(r, op)}

Responded(r) == reg[r].pc = "done"
CreatedIdentity(r) == "ok" \in ResultsOf(r, "createUser")
CreateFailed(r) == ResultsOf(r, "createUser") \cap {"error", "throw"} # {}
InsertSucceeded(r) == "ok" \in ResultsOf(r, "insert")
InsertFailed(r) == ResultsOf(r, "insert") \cap {"error", "throw"} # {}
DeleteSucceeded(r) == "ok" \in ResultsOf(r, "deleteUser")
DeleteFailed(r) == ResultsOf(r, "deleteUser") \cap {"error", "throw"} # {}

\* C1: whenever create-identity succeeded with id X and the Profile insert
\* then failed for any reason, the request has issued exactly one
\* delete-identity call, with id X, by the time it responds; once that delete
\* has succeeded, X is no longer an identity of the Credential Store.
C1_CompensatingDelete ==
  \A r \in Requests :
    (Responded(r) /\ CreatedIdentity(r) /\ InsertFailed(r)) =>
      /\ Cardinality(CallsTo(r, "deleteUser")) = 1
      /\ \A i \in CallsTo(r, "deleteUser") :
           reg[r].calls[i].arg = reg[r].authData
      /\ DeleteSucceeded(r) => reg[r].authData \notin IdentityIds

\* C2: in every reachable state every Profile row is keyed by the id of an
\* Identity that currently exists in the Credential Store.
C2_ProfileHasIdentity == ProfileIds \subseteq IdentityIds

\* Two requests have run to their responses, one leaving a Profile and the
\* other a compensated insert failure.
C2_Witness ==
  \E r1, r2 \in Requests :
    /\ Responded(r1) /\ InsertSucceeded(r1)
    /\ reg[r1].authData \in ProfileIds
    /\ Responded(r2) /\ InsertFailed(r2) /\ DeleteSucceeded(r2)

\* C3: once a registration request has sent its response and no compensating
\* delete has failed, the Identity it created exists in the Credential Store
\* only if a Profile keyed by that id exists in the Profile Store.
C3_NoOrphanAfterResponse ==
  \A r \in Requests :
    (Responded(r) /\ CreatedIdentity(r) /\ ~DeleteFailed(r)) =>
      (reg[r].authData \in IdentityIds => reg[r].authData \in ProfileIds)

\* C4: a request whose Profile insert failed and whose compensating delete
\* also failed ends with an outcome different from that of a request whose
\* Profile insert failed and whose compensation succeeded.
C4_CompensationFailedIsDistinct ==
  \A r1, r2 \in Requests :
    ( /\ Responded(r1) /\ InsertFailed(r1) /\ DeleteFailed(r1)
      /\ Responded(r2) /\ InsertFailed(r2) /\ DeleteSucceeded(r2) ) =>
      reg[r1].res # reg[r2].res

\* email, password, display name, primary surname and birth date.
RequiredFields == {"email", "password", "Nombre", "apellido_1", "fecha_nacime"}

\* The body carries every required field, non-empty.
HasRequiredFields(b) == \A f \in RequiredFields : b[f] # ""

CreateFailsIn(r) == reg[r].pc = "createUser" /\ CreateFailed(r)'

\* C6: when create-identity fails the request answers at once: createUser is
\* its only call (no insert, no deleteUser, no second createUser), and the
\* step leaves the Profile Store and the set of identities unchanged.
C6_CreateFailureTouchesNothing ==
  /\ [](\A r \in Requests :
          CreateFailed(r) =>
            /\ Responded(r)
            /\ Len(reg[r].calls) = 1
            /\ reg[r].authData = 0)
  /\ [][\A r \in Requests :
          CreateFailsIn(r) => (authUsers' = authUsers /\ usuarios' = usuarios)]_vars

\* A create-identity failure against stores that hold an identity and a
\* profile.
C6_Witness ==
  \E r \in Requests :
    /\ CreateFailed(r) /\ Responded(r)
    /\ authUsers # {} /\ usuarios # {}

\* C7: when both create-identity and the Profile insert succeed the response
\* is 201 with userId the id of the identity the request created, the request
\* has issued exactly one insert, keyed by that id, and no deleteUser; the
\* Profile row with that key is in the Profile Store.
C7_SuccessfulRegistration ==
  \A r \in Requests :
    (CreatedIdentity(r) /\ InsertSucceeded(r)) =>
      /\ Responded(r)
      /\ reg[r].res.status = 201
      /\ reg[r].res.userId = reg[r].authData
      /\ [id |-> reg[r].authData, email |-> reg[r].body.email] \in authUsers
      /\ Cardinality(CallsTo(r, "insert")) = 1
      /\ \A i \in CallsTo(r, "insert") : reg[r].calls[i].arg = reg[r].authData
      /\ CallsTo(r, "deleteUser") = {}
      /\ [ID_Usuario |-> reg[r].authData, Correo |-> reg[r].body.email]
           \in usuarios

\* Two registrations have both succeeded, with different ids.
C7_Witness ==
  \E r1, r2 \in Requests :
    /\ r1 # r2
    /\ CreatedIdentity(r1) /\ InsertSucceeded(r1)
    /\ CreatedIdentity(r2) /\ InsertSucceeded(r2)
    /\ reg[r1].res.userId # reg[r2].res.userId

\* =================================================================
\* Properties of requireAuth and the route wiring (checked under GuardSpec)
\* =================================================================

\* The header has the form `Bearer <token>`.
BearerForm(h) ==
  /\ h.present
  /\ Len(Split(h.value)) >= 2
  /\ Split(h.value)[1] = <<"Bearer">>
  /\ Split(h.value)[2] # <<>>

\* The routes the interface declares Authenticated, and the Public ones.
AuthenticatedRoutes ==
  {"GET /api/perfil", "POST /api/servicios", "PUT /api/servicios/:id",
   "DELETE /api/servicios/:id"}

DeclaredPublicRoutes ==
  {"POST /api/register", "POST /api/login", "GET /api/usuarios",
   "GET /api/usuarios/:id", "GET /api/servicios"}

Guarded == cur.pc # "none" /\ cur.route \in AuthenticatedRoutes

\* C8: a request whose Authorization header is absent, has no token segment
\* or lacks the `Bearer ` prefix is rejected as MissingCredential and its
\* token is not presented to verify-token; a header `Bearer <token>` has that
\* token presented, and yields the resolved identity or
\* InvalidOrExpiredCredential.
C8_GuardClassification ==
  Guarded =>
    /\ ~BearerForm(cur.header) =>
         /\ cur.verifyCalls = 0
         /\ cur.pc = "done"
         /\ cur.status = 401
         /\ cur.text = "Falta el token Bearer"
    /\ BearerForm(cur.header) =>
         /\ cur.verifyCalls = 1
         /\ cur.token = [defined |-> TRUE, value |-> Split(cur.header.value)[2]]
         /\ cur.verify = "ok" => cur.user # 0
         /\ cur.verify = "error" =>
              (cur.status = 401 /\ cur.text = "Token inválido o expirado")

\* The Session Guard has failed for the request being served.
GuardFailed ==
  /\ Guarded
  /\ cur.pc = "done"
  /\ \/ Falsy(TokenOf(cur.header))
     \/ cur.verify \in {"error", "nouser", "throw"}

\* C9: every Session Guard failure (missing credential, provider error, no
\* resolved identity, exception during verification) is answered 401, never
\* with a 5xx and never with 404.
C9_GuardFailureIsUnauthorized == GuardFailed => cur.status = 401

\* The verification itself has thrown.
C9_Witness == GuardFailed /\ cur.verify = "throw"

CarriesToken == Guarded /\ ~Falsy(TokenOf(cur.header))

\* C11: the Session Guard keeps no validity state of its own: every request
\* on a protected route that carries a token has it presented to verify-token
\* exactly once, and a request that arrives with a token the provider has
\* already expired or revoked never reaches its handler and is answered 401,
\* however many earlier requests with that token were accepted.
C11_VerifiedOnEveryRequest ==
  /\ CarriesToken => cur.verifyCalls = 1
  /\ (CarriesToken /\ obs.expiredOnArrival) =>
       /\ ~cur.handlerRan
       /\ cur.pc = "done" => cur.status = 401

\* A request is rejected whose token an earlier request was accepted with.
C11_Witness ==
  /\ CarriesToken
  /\ obs.expiredOnArrival
  /\ cur.pc = "done"
  /\ cur.status = 401
  /\ obs.accepted[cur.token.value[1]] # 0

\* =================================================================
\* Responses of POST /api/register to store failures (checked under Spec)
\* =================================================================

\* Some call of request r has raised an exception.
Threw(r) == \E i \in DOMAIN reg[r].calls : reg[r].calls[i].result = "throw"

\* C12 as stated: every registration request that fails because
\* create-identity or the Profile insert failed, by an error value or by an
\* exception, is answered 400 with a message prefixed for the store that
\* failed.
C12_StoreFailureIs400 ==
  \A r \in Requests :
    Responded(r) =>
      /\ CreateFailed(r) => reg[r].res = ResAuthError
      /\ InsertFailed(r) => reg[r].res = ResDbError

\* C12 as amended: a create-identity failure returned as an error value is
\* answered 400 "Error Auth: "; a Profile insert failure returned as an error
\* value, once the compensating delete has resolved, is answered 400 "Error
\* Base de Datos: "; a request in which any call raised an exception is
\* answered 500 "Error interno en el registro".
C12_ReturnedFailureIs400ThrownIs500 ==
  \A r \in Requests :
    Responded(r) =>
      /\ ("error" \in ResultsOf(r, "createUser")) => reg[r].res = ResAuthError
      /\ ("error" \in ResultsOf(r, "insert") /\ ~Threw(r)) =>
           reg[r].res = ResDbError
      /\ Threw(r) => reg[r].res = ResInternal

\* One request was answered after a returned insert error, another after an
\* exception.
C12_Witness ==
  \E r1, r2 \in Requests :
    /\ Responded(r1) /\ "error" \in ResultsOf(r1, "insert") /\ ~Threw(r1)
    /\ reg[r1].res.status = 400
    /\ Responded(r2) /\ Threw(r2)
    /\ reg[r2].res.status = 500

====
